---- MODULE Spec2Model ----
(***************************************************************************)
(* Model of fcgi-cli: the response header parser (src/headers.rs), the     *)
(* parameter derivation and the response routing (src/main.rs).            *)
(*                                                                         *)
(* Byte strings are sequences of byte values 0..255; header names and      *)
(* values are sequences of code points.  Parameter values and paths are    *)
(* sequences of one-character strings.  Option<T> is a sequence of length  *)
(* 0 (None) or 1 (Some).                                                   *)
(***************************************************************************)
EXTENDS Integers, Sequences, FiniteSets, TLC

VARIABLES
    pc,          \* position in execute / handle_response_stdout / _stderr
    cli,         \* the parsed command line (struct Cli)
    env,         \* whitelisted environment pairs handed to set_from_env
    params,      \* Option<Params>: the derived parameter set
    stdout_data, \* response.stdout : Option<Vec<u8>>
    stderr_data, \* response.stderr : Option<Vec<u8>>
    parsed,      \* result of parse_headers(data)
    status,      \* Option<u16>: value computed by the status check
    out,         \* the slice `out` selected for the primary destination
    out_name,    \* Option<PathBuf> returned by real_output_file_name
    opened,      \* files created/truncated so far: <<[dest, path]>>
    written,     \* bytes written so far to each destination stream
    error        \* the error execute returned, "None" while there is none

vars == <<pc, cli, env, params, stdout_data, stderr_data, parsed, status,
          out, out_name, opened, written, error>>

(***************************************************************************)
(* Bounds                                                                  *)
(***************************************************************************)
MaxPieces == 4

(***************************************************************************)
(* Notation: characters and bytes                                          *)
(***************************************************************************)
None == <<>>
Some(v) == <<v>>
IsSome(o) == Len(o) = 1
Unwrap(o) == o[1]

\* ASCII 32..126 in code order.
Printable ==
    << " ", "!", "\"", "#", "$", "%", "&", "'", "(", ")", "*", "+", ",", "-",
       ".", "/", "0", "1", "2", "3", "4", "5", "6", "7", "8", "9", ":", ";",
       "<", "=", ">", "?", "@", "A", "B", "C", "D", "E", "F", "G", "H", "I",
       "J", "K", "L", "M", "N", "O", "P", "Q", "R", "S", "T", "U", "V", "W",
       "X", "Y", "Z", "[", "\\", "]", "^", "_", "BQ", "a", "b", "c", "d", "e",
       "f", "g", "h", "i", "j", "k", "l", "m", "n", "o", "p", "q", "r", "s",
       "t", "u", "v", "w", "x", "y", "z", "{", "|", "}", "~" >>

\* Code of a character; "NUL", "DEL", "HI" and "BQ" (backquote) name bytes
\* with no literal.
Ord(c) ==
    CASE c = "NUL" -> 0
      [] c = "\t" -> 9
      [] c = "\n" -> 10
      [] c = "\r" -> 13
      [] c = "DEL" -> 127
      [] c = "HI" -> 233
      [] OTHER -> 31 + (CHOOSE i \in 1..Len(Printable) : Printable[i] = c)

\* b"..." : the bytes of a literal.
Bytes(s) == [i \in 1..Len(s) |-> Ord(s[i])]

Drop(s, n) == SubSeq(s, n + 1, Len(s))
Take(s, n) == SubSeq(s, 1, n)

RECURSIVE Concat(_)
Concat(ss) == IF ss = <<>> THEN <<>> ELSE Head(ss) \o Concat(Tail(ss))

(***************************************************************************)
(* src/headers.rs                                                          *)
(***************************************************************************)
\* nom results: Ok((rest, output)) or Err.
Ok(rest, o) == [ok |-> TRUE, rest |-> rest, out |-> o]
Err == [ok |-> FALSE, rest |-> <<>>, out |-> <<>>]

is_ascii_control(b) == b <= 31 \/ b = 127

\* b"()<>@,;:\\\"/[]?={} "
TokenExcluded ==
    { Ord(c) : c \in {"(", ")", "<", ">", "@", ",", ";", ":", "\\", "\"",
                      "/", "[", "]", "?", "=", "{", "}", " "} }

\* b"()<>@,;:\\\"/[]?={} \t"
SeparatorBytes == TokenExcluded \cup {Ord("\t")}

is_token_byte(b) == b \notin TokenExcluded /\ ~is_ascii_control(b)

is_quoted_byte(b) == b # Ord("\"") /\ (b = Ord("\t") \/ ~is_ascii_control(b))

is_space(b) == b = Ord(" ") \/ b = Ord("\t")

ByteValues == 0..255

\* The bytes accepted by each take_while predicate.
TokenBytes == { b \in ByteValues : is_token_byte(b) }
QuotedBytes == { b \in ByteValues : is_quoted_byte(b) }
SpaceBytes == { b \in ByteValues : is_space(b) }

\* Length of the longest prefix of s whose bytes are all in set.
PrefixLen(set, s) ==
    CHOOSE n \in 0..Len(s) :
        /\ \A i \in 1..n : s[i] \in set
        /\ n = Len(s) \/ s[n + 1] \notin set

take_while(set, input) ==
    LET n == PrefixLen(set, input) IN Ok(Drop(input, n), Take(input, n))

take_while1(set, input) ==
    LET n == PrefixLen(set, input)
    IN IF n = 0 THEN Err ELSE Ok(Drop(input, n), Take(input, n))

tag(t, input) ==
    IF Len(input) >= Len(t) /\ Take(input, Len(t)) = t
    THEN Ok(Drop(input, Len(t)), t)
    ELSE Err

\* The byte literals of the grammar: b":", "\"", "\n" and "\r\n".
Colon == Bytes(<<":">>)
Quote == Bytes(<<"\"">>)
Newline == Bytes(<<"\n">>)
CrLf == Bytes(<<"\r", "\n">>)

\* alt((a, b)): the first alternative that succeeds.
alt(a, b) == IF a.ok THEN a ELSE b

space0(input) == take_while(SpaceBytes, input)

\* nom::character::complete::line_ending: "\n" or "\r\n".
line_ending(input) == alt(tag(Newline, input), tag(CrLf, input))

\* terminated(first, line_ending), given the result of first: the line
\* ending is consumed and first's output kept.
keep_output(o, eol) == IF eol.ok THEN Ok(eol.rest, o) ELSE Err

terminated_by_line_ending(first) ==
    IF first.ok THEN keep_output(first.out, line_ending(first.rest)) ELSE Err

token(input) == take_while1(TokenBytes, input)

separator(input) ==
    IF Len(input) > 0 /\ input[1] \in SeparatorBytes
    THEN Ok(Drop(input, 1), input[1])
    ELSE Err

\* delimited(tag("\""), take_while(..), tag("\"")), stage by stage.
quoted_close(mid, close) == IF close.ok THEN Ok(close.rest, mid.out) ELSE Err

quoted_middle(mid) == quoted_close(mid, tag(Quote, mid.rest))

quoted_open(open) ==
    IF open.ok THEN quoted_middle(take_while(QuotedBytes, open.rest)) ELSE Err

quoted_string(input) == quoted_open(tag(Quote, input))

\* alt((token, map(separator, from_ref), quoted_string))
field_part(input) ==
    alt(token(input), alt(separator(input), quoted_string(input)))

\* many0(alt(..)): the input left when the alternatives stop matching.
RECURSIVE many0_rest(_)
many0_step(input, r) == IF r.ok THEN many0_rest(r.rest) ELSE input

many0_rest(input) == many0_step(input, field_part(input))

\* recognize(..): the span consumed up to rest.
recognize(input, rest) == Ok(rest, Take(input, Len(input) - Len(rest)))

field_content(input) == recognize(input, many0_rest(input))

\* terminated(tag(b":"), space0), given the result of the tag.
skip_space0(colon) == IF colon.ok THEN space0(colon.rest) ELSE Err

\* separated_pair(token, terminated(tag(b":"), space0), field_content),
\* stage by stage.
pair_value(name, val) == Ok(val.rest, <<name, val.out>>)

pair_separator(name, sep) ==
    IF sep.ok THEN pair_value(name, field_content(sep.rest)) ELSE Err

pair_name(name) ==
    IF name.ok THEN pair_separator(name.out, skip_space0(tag(Colon, name.rest)))
    ELSE Err

separated_pair(input) == pair_name(token(input))

generic_field(input) == terminated_by_line_ending(separated_pair(input))

\* Each byte becomes the code point of the same value.
latin1_to_string(s) == [i \in 1..Len(s) |-> s[i]]

to_ascii_lowercase_mut(s) == s

to_ascii_lowercase(s) ==
    [i \in 1..Len(s) |->
        IF s[i] >= Ord("A") /\ s[i] <= Ord("Z") THEN s[i] + 32 ELSE s[i]]

\* HashMap::insert
Insert(m, k, v) == [x \in DOMAIN m \cup {k} |-> IF x = k THEN v ELSE m[x]]

EmptyMap == [x \in {} |-> <<>>]

fold_insert(acc, kv) ==
    Insert(acc, to_ascii_lowercase(latin1_to_string(kv[1])),
           latin1_to_string(kv[2]))

\* The loop of fold_many1 after its first success: r is the result of
\* generic_field on input.
RECURSIVE fold_more(_, _)
fold_step(input, acc, r) ==
    IF r.ok THEN fold_more(r.rest, fold_insert(acc, r.out)) ELSE Ok(input, acc)

fold_more(input, acc) == fold_step(input, acc, generic_field(input))

fold_first(r) ==
    IF r.ok THEN fold_more(r.rest, fold_insert(EmptyMap, r.out)) ELSE Err

fold_many1(input) == fold_first(generic_field(input))

\* .finish(): Ok((body, headers)) or Err, which carries no map.
finish(r) ==
    IF r.ok THEN [ok |-> TRUE, body |-> r.rest, headers |-> r.out]
    ELSE [ok |-> FALSE, body |-> <<>>, headers |-> EmptyMap]

parse_headers_mut(input) == finish(fold_many1(input))

\* terminated(fold_many1(..), line_ending)(input).finish()
parse_headers(input) == finish(terminated_by_line_ending(fold_many1(input)))

NotParsed == [ok |-> FALSE, body |-> <<>>, headers |-> EmptyMap]

(***************************************************************************)
(* src/main.rs: status check                                               *)
(***************************************************************************)
is_ascii_whitespace(c) == c \in {9, 10, 12, 13, 32}

WhitespaceChars == { c \in ByteValues : is_ascii_whitespace(c) }

\* s.split_ascii_whitespace().next().unwrap_or("")
first_part(s) ==
    LET t == Drop(s, PrefixLen(WhitespaceChars, s))
    IN Take(t, PrefixLen(ByteValues \ WhitespaceChars, t))

is_digit(c) == c >= Ord("0") /\ c <= Ord("9")

\* The digit loop of u16::from_str: checked_mul(10) then checked_add(d).
RECURSIVE parse_digits(_, _)
parse_digits(digits, acc) ==
    IF digits = <<>> THEN Some(acc)
    ELSE IF ~is_digit(digits[1]) THEN None
    ELSE LET v == acc * 10 + (digits[1] - Ord("0"))
         IN IF v > 65535 THEN None ELSE parse_digits(Tail(digits), v)

\* str::parse::<u16>: an optional '+', then one or more digits, no overflow.
parse_u16(s) ==
    IF s = <<>> THEN None
    ELSE IF s[1] \in {Ord("+"), Ord("-")} /\ Len(s) = 1 THEN None
    ELSE IF s[1] = Ord("+") THEN parse_digits(Tail(s), 0)
    ELSE parse_digits(s, 0)

StatusKey == Bytes(<<"s", "t", "a", "t", "u", "s">>)

\* headers.get("status").map_or_else(|| Ok(200u16), |s| parse(first part))
response_status(headers) ==
    IF StatusKey \in DOMAIN headers
    THEN parse_u16(first_part(headers[StatusKey]))
    ELSE Some(200)

\* if status > 400 { bail!(..) }
status_is_error(st) == st > 400

need_parse_header_mut(c) ==
    c.response_status_fail_on_gte_400 \/ IsSome(c.response_headers_dump_file)

need_parse_header(c) ==
    \/ c.response_status_fail_on_gte_400
    \/ ~c.response_headers_include
    \/ IsSome(c.response_headers_dump_file)

\* &data[..hdr_len] with hdr_len = data.len() - body.len()
header_span_mut(data, body) == data

header_span(data, body) == Take(data, Len(data) - Len(body))

(***************************************************************************)
(* src/main.rs: output paths                                               *)
(***************************************************************************)
is_absolute(p) == Len(p) > 0 /\ p[1] = "/"

\* Path::join(self, p): an absolute p replaces self, otherwise p is appended
\* after a separator (none after an empty self or a trailing separator).
join(self, p) ==
    IF is_absolute(p) THEN p
    ELSE IF Len(self) > 0 /\ self[Len(self)] # "/" THEN self \o <<"/">> \o p
    ELSE self \o p

resolve_output_path(c, path) ==
    IF IsSome(c.output_directory)
    THEN join(path, Unwrap(c.output_directory))
    ELSE path

\* str::split('/')
RECURSIVE Split(_)
Split(s) ==
    IF \A i \in 1..Len(s) : s[i] # "/" THEN <<s>>
    ELSE LET k == CHOOSE i \in 1..Len(s) :
                      s[i] = "/" /\ \A j \in 1..(i - 1) : s[j] # "/"
         IN <<Take(s, k - 1)>> \o Split(Drop(s, k))

\* Url::path_segments of a URL with a host: the path after its leading '/'.
path_segments(url) == Split(Drop(url.path, 1))

\* Ok(Option<PathBuf>) or the error "Remote file name has no length!".
real_output_file_name(c) ==
    IF c.output_file_remote_name
    THEN LET segs == path_segments(Unwrap(c.url))
         IN IF Len(segs) = 0 THEN [ok |-> FALSE, name |-> None]
            ELSE [ok |-> TRUE, name |-> Some(segs[Len(segs)])]
    ELSE [ok |-> TRUE, name |-> c.output_file_name]

(***************************************************************************)
(* src/main.rs: parameter derivation                                       *)
(***************************************************************************)
\* str::strip_prefix
strip_prefix(s, prefix) ==
    IF Len(s) >= Len(prefix) /\ Take(s, Len(prefix)) = prefix
    THEN Some(Drop(s, Len(prefix)))
    ELSE None

\* usize::to_string
RECURSIVE to_string(_)
to_string(n) ==
    IF n < 10 THEN <<Printable[n + 17]>>
    ELSE to_string(n \div 10) \o <<Printable[(n % 10) + 17]>>

\* request_uri(format!("{}?{}", url.path(), qs))
request_uri_value_mut(url, path_info, qs) == path_info \o <<"?">> \o qs

request_uri_value(url, path_info, qs) == url.path \o <<"?">> \o qs

\* The `if let Some(url)` block of set_from_cli; script_name is the resolved
\* script name.
set_from_url(p, c, script_name) ==
    IF ~IsSome(c.url) THEN p
    ELSE
    LET url == Unwrap(c.url)
        stripped == strip_prefix(url.path, script_name)
        path_info == IF IsSome(stripped) THEN Unwrap(stripped) ELSE url.path
        p1 == IF path_info = <<>> THEN p
              ELSE LET q == IF IsSome(c.server_document_root)
                            THEN Insert(p, "PATH_TRANSLATED",
                                   Unwrap(c.server_document_root) \o path_info)
                            ELSE p
                   IN Insert(q, "PATH_INFO", path_info)
        p2 == IF url.host.kind = "Domain"
              THEN Insert(p1, "HTTP_HOST", url.host.name)
              ELSE p1
        p3 == IF IsSome(url.query)
              THEN Insert(Insert(p2, "QUERY_STRING", Unwrap(url.query)),
                          "REQUEST_URI",
                          request_uri_value(url, path_info, Unwrap(url.query)))
              ELSE Insert(p2, "REQUEST_URI", url.path)
    IN IF url.scheme = <<"h", "t", "t", "p", "s">>
       THEN Insert(p3, "HTTPS", <<"o", "n">>)
       ELSE p3

set_from_cli(p, c) ==
    LET p1 == Insert(p, "REQUEST_METHOD", c.request_method)
        p2 == IF IsSome(c.script_name)
              THEN Insert(p1, "SCRIPT_NAME", Unwrap(c.script_name))
              ELSE p1
        script_name ==
            IF IsSome(c.script_name) THEN Unwrap(c.script_name)
            ELSE IF "SCRIPT_NAME" \in DOMAIN p1 THEN p1["SCRIPT_NAME"]
            ELSE <<>>
        p3 == IF script_name # <<>> /\ IsSome(c.server_document_root)
              THEN Insert(p2, "SCRIPT_FILENAME",
                          Unwrap(c.server_document_root) \o script_name)
              ELSE p2
        p4 == set_from_url(p3, c, script_name)
    IN IF IsSome(c.data) /\ "CONTENT_LENGTH" \notin DOMAIN p4
       THEN Insert(p4, "CONTENT_LENGTH", to_string(Len(Unwrap(c.data))))
       ELSE p4

\* self.extend(vars): the pairs are inserted in order.
RECURSIVE set_from_env(_, _)
set_from_env(p, pairs) ==
    IF pairs = <<>> THEN p
    ELSE set_from_env(Insert(p, pairs[1][1], pairs[1][2]), Tail(pairs))

(***************************************************************************)
(* Inputs                                                                  *)
(***************************************************************************)
ExampleCom == <<"e", "x", "a", "m", "p", "l", "e", ".", "c", "o", "m">>

Http == <<"h", "t", "t", "p">>
Https == <<"h", "t", "t", "p", "s">>

Url(scheme, kind, path, query) ==
    [scheme |-> scheme, host |-> [kind |-> kind, name |-> ExampleCom],
     path |-> path, query |-> query]

NoCli ==
    [url |-> None, data |-> None, server_document_root |-> None,
     script_name |-> None, response_headers_dump_file |-> None,
     response_headers_include |-> FALSE,
     response_status_fail_on_gte_400 |-> FALSE, output_directory |-> None,
     output_file_name |-> None, output_file_remote_name |-> FALSE,
     stderr_file_name |-> None, request_method |-> <<"G", "E", "T">>]

\* URL paths used when routing: "/app/show", "/" and "/dir/".
RoutePaths ==
    { <<"/", "a", "p", "p", "/", "s", "h", "o", "w">>, <<"/">>,
      <<"/", "d", "i", "r", "/">> }

\* (output file, remote-name flag, URL path): -o conflicts with -O.
OutputModes ==
    { <<None, FALSE, <<"/">> >>,
      <<Some(<<"o", ".", "t", "x", "t">>), FALSE, <<"/">> >> }
    \cup { <<None, TRUE, p>> : p \in RoutePaths }

RouteClis ==
    { [NoCli EXCEPT
         !.url = Some(Url(Http, "Domain", m[3], None)),
         !.response_headers_dump_file = d,
         !.response_headers_include = i,
         !.response_status_fail_on_gte_400 = f,
         !.output_directory = od,
         !.output_file_name = m[1],
         !.output_file_remote_name = m[2],
         !.stderr_file_name = e] :
        d \in {None, Some(<<"h", ".", "t", "x", "t">>)},
        i \in BOOLEAN, f \in BOOLEAN,
        od \in {None, Some(<<"d">>), Some(<<"/", "d">>)},
        m \in OutputModes,
        e \in {None, Some(<<"e", ".", "t", "x", "t">>)} }

StatusLine(v) == Bytes(<<"S", "t", "a", "t", "u", "s", ":">> \o v \o <<"\n">>)

\* Primary response buffers the transport may return.
Responses ==
    { StatusLine(<<"4", "0", "0">>) \o Bytes(<<"\n", "h", "i">>),
      StatusLine(<<"4", "0", "1">>) \o Bytes(<<"\n", "n", "o">>),
      StatusLine(<<"3", "9", "9">>) \o Bytes(<<"\n", "o", "k">>),
      StatusLine(<<" ", "x">>) \o Bytes(<<"\n", "b">>),
      StatusLine(<<>>) \o Bytes(<<"\n", "b">>),
      Bytes(<<"S", "T", "A", "T", "U", "S", ":", " ", "5", "0", "0", " ", "E",
              "\r", "\n", "\r", "\n", "f">>),
      Bytes(<<"a", ":", "x", "\n", "\n", "h", "i">>),
      Bytes(<<"a", ":", "x", "\n", "h", "i">>),
      Bytes(<<"h", "i">>) }

Diagnostics == { Bytes(<<"E", "!">>) }

\* Lines and fragments from which parser inputs are assembled.
Pieces ==
    { Bytes(<<"a", ":", "x", "\n">>),
      Bytes(<<"A", ":", " ", "\t", "\"", "q", ",", "\"", "\r", "\n">>),
      Bytes(<<"b", ":", "\n">>),
      Bytes(<<"\n">>),
      Bytes(<<"\r", "\n">>),
      Bytes(<<"a", " ", "b", ":", "x", "\n">>),
      Bytes(<<"a", ":", "x">>),
      Bytes(<<":", "x", "\n">>),
      Bytes(<<"a", ":", "NUL", "\n">>),
      Bytes(<<"\r">>) }

ParserInputs ==
    { Concat(ps) : ps \in UNION { [1..n -> Pieces] : n \in 0..MaxPieces } }

Root == <<"/", "s", "r", "v", "/", "w", "w", "w">>
App == <<"/", "a", "p", "p">>
AppShow == <<"/", "a", "p", "p", "/", "s", "h", "o", "w">>
Id5 == <<"i", "d", "=", "5">>

DeriveUrls ==
    { None,
      Some(Url(Https, "Domain", AppShow, Some(Id5))),
      Some(Url(Http, "Domain", AppShow, None)),
      Some(Url(Http, "Ipv4", App, Some(Id5))),
      Some(Url(Https, "Domain", <<"/">>, None)) }

DeriveClis ==
    { [NoCli EXCEPT
         !.url = u, !.script_name = sn, !.server_document_root = r,
         !.data = b, !.request_method = m] :
        u \in DeriveUrls,
        sn \in {None, Some(App), Some(<<"/", "x">>), Some(<<>>)},
        r \in {None, Some(Root)},
        b \in {None, Some(<<"a", "b", "c">>)},
        m \in {<<"G", "E", "T">>, <<"P", "O", "S", "T">>} }

\* Whitelisted environment snapshots.
Environments ==
    { <<>>,
      << <<"SCRIPT_NAME", App>> >>,
      << <<"CONTENT_LENGTH", <<"7">> >>, <<"HTTPS", <<"o", "f", "f">> >> >> }

NoWrites == [dump |-> <<>>, out |-> <<>>, err |-> <<>>]

(***************************************************************************)
(* execute, from the response onwards                                      *)
(***************************************************************************)
Init ==
    /\ pc = "start"
    /\ cli \in RouteClis
    /\ env = <<>>
    /\ params = None
    /\ stdout_data \in {None} \cup { Some(r) : r \in Responses }
    /\ stderr_data \in {None} \cup { Some(d) : d \in Diagnostics }
    /\ parsed = NotParsed
    /\ status = None
    /\ out = <<>>
    /\ out_name = None
    /\ opened = <<>>
    /\ written = NoWrites
    /\ error = "None"

\* return Err(e) from execute
Abort(e) == pc' = "done" /\ error' = e

\* The io::Error of a failed open or copy, labelled by the stream it hit.
IoError(dest) ==
    CASE dest = "dump" -> "DumpIo"
      [] dest = "out" -> "OutputIo"
      [] dest = "err" -> "DiagIo"

\* open_output_file: create/truncate the resolved path, or fail.
OpenFile(dest, name, next) ==
    LET path == resolve_output_path(cli, name) IN
    \/ /\ path # <<>>
       /\ opened' = Append(opened, [dest |-> dest, name |-> name, path |-> path])
       /\ pc' = next
       /\ error' = error
    \/ /\ opened' = opened
       /\ Abort(IoError(dest))

\* io::copy: all the bytes, or a failure after some proper prefix of them.
CopyTo(dest, bytes, next) ==
    \/ /\ written' = [written EXCEPT ![dest] = @ \o bytes]
       /\ pc' = next
       /\ error' = error
    \/ \E n \in 0..(Len(bytes) - 1) :
          /\ written' = [written EXCEPT ![dest] = @ \o Take(bytes, n)]
          /\ Abort(IoError(dest))

\* if let Some(data) = response.stdout
ExecuteStdout ==
    /\ pc = "start"
    /\ pc' = IF IsSome(stdout_data) THEN "handle_stdout" ELSE "stderr"
    /\ UNCHANGED <<cli, env, params, stdout_data, stderr_data, parsed, status,
                   out, out_name, opened, written, error>>

\* ParseStep, but creating the header-dump file before the headers are parsed.
ParseStep_mut ==
    /\ pc = "handle_stdout"
    /\ IF ~need_parse_header(cli)
       THEN /\ out' = Unwrap(stdout_data)
            /\ pc' = "resolve"
            /\ UNCHANGED <<parsed, error, opened>>
       ELSE /\ opened' =
                 IF IsSome(cli.response_headers_dump_file)
                 THEN Append(opened,
                        [dest |-> "dump",
                         name |-> Unwrap(cli.response_headers_dump_file),
                         path |-> resolve_output_path(cli,
                                    Unwrap(cli.response_headers_dump_file))])
                 ELSE opened
            /\ parsed' = parse_headers(Unwrap(stdout_data))
            /\ IF parsed'.ok
               THEN pc' = "status" /\ error' = error
               ELSE Abort("MalformedHeaders")
            /\ out' = out
    /\ UNCHANGED <<cli, env, params, stdout_data, stderr_data, status,
                   out_name, written>>

\* need_parse_header and parse_headers(data)?
ParseStep ==
    /\ pc = "handle_stdout"
    /\ IF ~need_parse_header(cli)
       THEN /\ out' = Unwrap(stdout_data)
            /\ pc' = "resolve"
            /\ UNCHANGED <<parsed, error>>
       ELSE /\ parsed' = parse_headers(Unwrap(stdout_data))
            /\ IF parsed'.ok
               THEN pc' = "status" /\ error' = error
               ELSE Abort("MalformedHeaders")
            /\ out' = out
    /\ UNCHANGED <<cli, env, params, stdout_data, stderr_data, status,
                   out_name, opened, written>>

\* if cli.response_status_fail_on_gte_400 { .. }
StatusStep ==
    /\ pc = "status"
    /\ IF cli.response_status_fail_on_gte_400
       THEN LET st == response_status(parsed.headers) IN
            /\ status' = st
            /\ IF ~IsSome(st) THEN Abort("InvalidStatusValue")
               ELSE IF status_is_error(Unwrap(st)) THEN Abort("UpstreamError")
               ELSE pc' = "dump_open" /\ error' = error
       ELSE /\ pc' = "dump_open"
            /\ UNCHANGED <<status, error>>
    /\ UNCHANGED <<cli, env, params, stdout_data, stderr_data, parsed, out,
                   out_name, opened, written>>

\* if cli.response_headers_include { data } else { body }
selected_output(c, data, body) ==
    IF c.response_headers_include THEN data ELSE body

\* open_output_file(&cli, file_name) for the header dump
DumpOpen ==
    /\ pc = "dump_open"
    /\ IF IsSome(cli.response_headers_dump_file)
       THEN /\ OpenFile("dump", Unwrap(cli.response_headers_dump_file),
                        "dump_write")
            /\ out' = out
       ELSE /\ out' = selected_output(cli, Unwrap(stdout_data), parsed.body)
            /\ pc' = "resolve"
            /\ UNCHANGED <<opened, error>>
    /\ UNCHANGED <<cli, env, params, stdout_data, stderr_data, parsed, status,
                   out_name, written>>

\* io::copy(&mut &data[..hdr_len], &mut hdr_stream)
DumpWrite ==
    /\ pc = "dump_write"
    /\ CopyTo("dump", header_span(Unwrap(stdout_data), parsed.body), "resolve")
    /\ out' = IF pc' = "resolve"
              THEN selected_output(cli, Unwrap(stdout_data), parsed.body)
              ELSE out
    /\ UNCHANGED <<cli, env, params, stdout_data, stderr_data, parsed, status,
                   out_name, opened>>

\* cli.real_output_file_name()?
ResolveOut ==
    /\ pc = "resolve"
    /\ LET r == real_output_file_name(cli) IN
       IF ~r.ok THEN Abort("EmptyRemoteName") /\ out_name' = out_name
       ELSE /\ out_name' = r.name
            /\ pc' = IF IsSome(r.name) THEN "open_out" ELSE "write_out"
            /\ error' = error
    /\ UNCHANGED <<cli, env, params, stdout_data, stderr_data, parsed, status,
                   out, opened, written>>

\* open_output_file(&cli, file_name) for the primary output
OpenOut ==
    /\ pc = "open_out"
    /\ OpenFile("out", Unwrap(out_name), "write_out")
    /\ UNCHANGED <<cli, env, params, stdout_data, stderr_data, parsed, status,
                   out, out_name, written>>

\* io::copy(&mut out, &mut out_stream)
WriteOut ==
    /\ pc = "write_out"
    /\ CopyTo("out", out, "stderr")
    /\ UNCHANGED <<cli, env, params, stdout_data, stderr_data, parsed, status,
                   out, out_name, opened>>

\* if let Some(data) = response.stderr, and the choice of err_stream
ExecuteStderr ==
    /\ pc = "stderr"
    /\ IF ~IsSome(stderr_data)
       THEN pc' = "done" /\ UNCHANGED <<opened, error>>
       ELSE IF IsSome(cli.stderr_file_name)
       THEN OpenFile("err", Unwrap(cli.stderr_file_name), "write_err")
       ELSE pc' = "write_err" /\ UNCHANGED <<opened, error>>
    /\ UNCHANGED <<cli, env, params, stdout_data, stderr_data, parsed, status,
                   out, out_name, written>>

\* io::copy(&mut data.as_slice(), &mut err_stream)
WriteErr ==
    /\ pc = "write_err"
    /\ CopyTo("err", Unwrap(stderr_data), "done")
    /\ UNCHANGED <<cli, env, params, stdout_data, stderr_data, parsed, status,
                   out, out_name, opened>>

Next ==
    \/ ExecuteStdout
    \/ ParseStep
    \/ StatusStep
    \/ DumpOpen
    \/ DumpWrite
    \/ ResolveOut
    \/ OpenOut
    \/ WriteOut
    \/ ExecuteStderr
    \/ WriteErr

Spec == Init /\ [][Next]_vars

(***************************************************************************)
(* parse_headers on assembled inputs                                       *)
(***************************************************************************)
InitParse ==
    /\ pc = "parse_input"
    /\ cli = NoCli
    /\ env = <<>>
    /\ params = None
    /\ stdout_data \in { Some(b) : b \in ParserInputs }
    /\ stderr_data = None
    /\ parsed = NotParsed
    /\ status = None
    /\ out = <<>>
    /\ out_name = None
    /\ opened = <<>>
    /\ written = NoWrites
    /\ error = "None"

ParseInput ==
    /\ pc = "parse_input"
    /\ parsed' = parse_headers(Unwrap(stdout_data))
    /\ pc' = "parsed"
    /\ UNCHANGED <<cli, env, params, stdout_data, stderr_data, status, out,
                   out_name, opened, written, error>>

NextParse == ParseInput

SpecParse == InitParse /\ [][NextParse]_vars

(***************************************************************************)
(* execute, up to the request: Params::default().set_from_env(..)          *)
(*                                             .set_from_cli(&cli)         *)
(***************************************************************************)
\* Params::default() is taken as the empty map: the entries the
\* fastcgi-client library puts there are none of the keys derived here.
InitParams ==
    /\ pc = "derive"
    /\ cli \in DeriveClis
    /\ env \in Environments
    /\ params = None
    /\ stdout_data = None
    /\ stderr_data = None
    /\ parsed = NotParsed
    /\ status = None
    /\ out = <<>>
    /\ out_name = None
    /\ opened = <<>>
    /\ written = NoWrites
    /\ error = "None"

Derive ==
    /\ pc = "derive"
    /\ params' = Some(set_from_cli(set_from_env(EmptyMap, env), cli))
    /\ pc' = "derived"
    /\ UNCHANGED <<cli, env, stdout_data, stderr_data, parsed, status, out,
                   out_name, opened, written, error>>

NextParams == Derive

SpecParams == InitParams /\ [][NextParams]_vars

(***************************************************************************)
(* The header grammar, stated line by line                                 *)
(***************************************************************************)
LF == Ord("\n")

HasLine(s) == \E i \in 1..Len(s) : s[i] = LF

\* The first line of s, terminator included.
FirstLine(s) ==
    Take(s, CHOOSE i \in 1..Len(s) : s[i] = LF /\ \A j \in 1..(i - 1) : s[j] # LF)

\* A line without its LF or CR LF terminator.
LineContent(line) ==
    LET c == Take(line, Len(line) - 1)
    IN IF Len(c) > 0 /\ c[Len(c)] = Ord("\r") THEN Take(c, Len(c) - 1) ELSE c

IsNameByte(b) == b > 32 /\ b # 127 /\ b \notin SeparatorBytes

IsValueByte(b) == b = 9 \/ (b >= 32 /\ b # 127)

\* Position of the colon ending the name of a generic-field, 0 if the line
\* is not a generic-field.
ColonAt(c) ==
    IF \E k \in 2..Len(c) :
          /\ c[k] = Ord(":")
          /\ \A i \in 1..(k - 1) : IsNameByte(c[i])
          /\ \A i \in (k + 1)..Len(c) : IsValueByte(c[i])
    THEN CHOOSE k \in 2..Len(c) :
          c[k] = Ord(":") /\ \A i \in 1..(k - 1) : IsNameByte(c[i])
    ELSE 0

IsFieldLine(line) == ColonAt(LineContent(line)) > 0

FieldName(line) ==
    LET c == LineContent(line) IN Take(c, ColonAt(c) - 1)

\* The field-content: what follows the colon and any horizontal space.
FieldValue(line) ==
    LET c == LineContent(line)
        v == Drop(c, ColonAt(c))
        n == CHOOSE n \in 0..Len(v) :
                 /\ \A i \in 1..n : v[i] \in {9, 32}
                 /\ n = Len(v) \/ v[n + 1] \notin {9, 32}
    IN Drop(v, n)

\* The generic-fields before the first blank line and the bytes after it;
\* ok is FALSE when a line before the blank line is not a generic-field or
\* no blank line ends the block.
RECURSIVE HeaderBlock(_)
HeaderBlock(s) ==
    IF ~HasLine(s) THEN [ok |-> FALSE, fields |-> <<>>, body |-> <<>>]
    ELSE LET line == FirstLine(s)
             rest == Drop(s, Len(line))
         IN IF LineContent(line) = <<>>
            THEN [ok |-> TRUE, fields |-> <<>>, body |-> rest]
            ELSE IF ~IsFieldLine(line)
            THEN [ok |-> FALSE, fields |-> <<>>, body |-> <<>>]
            ELSE LET r == HeaderBlock(rest)
                 IN [r EXCEPT
                       !.fields = << <<FieldName(line), FieldValue(line)>> >> \o @]

WellFormed(s) == HeaderBlock(s).ok /\ Len(HeaderBlock(s).fields) >= 1

FoldCase(name) ==
    [i \in 1..Len(name) |->
        IF name[i] \in 65..90 THEN name[i] + 32 ELSE name[i]]

\* The value of the last field whose name is key up to ASCII case.
LastValue(fields, key) ==
    LET i == CHOOSE i \in 1..Len(fields) :
                 /\ FoldCase(fields[i][1]) = key
                 /\ \A j \in (i + 1)..Len(fields) : FoldCase(fields[j][1]) # key
    IN fields[i][2]

(***************************************************************************)
(* Properties                                                              *)
(***************************************************************************)
StdoutBytes == Unwrap(stdout_data)

\* C8: a well-formed block of N >= 1 generic-fields, a blank line and any
\* body parses successfully; the map's keys are exactly the ASCII-lowercased
\* names (at most N of them), each mapped to the verbatim field-content of
\* the last field of that name, and the body slice is exactly the bytes
\* after the blank line.
C8_WellFormedParses ==
    (pc = "parsed" /\ WellFormed(StdoutBytes)) =>
        LET hb == HeaderBlock(StdoutBytes)
            keys == { FoldCase(hb.fields[i][1]) : i \in 1..Len(hb.fields) }
        IN /\ parsed.ok
           /\ parsed.body = hb.body
           /\ DOMAIN parsed.headers = keys
           /\ Cardinality(DOMAIN parsed.headers) <= Len(hb.fields)
           /\ \A k \in keys : parsed.headers[k] = LastValue(hb.fields, k)

\* C8 witness: two fields whose names differ only in case, a quoted value
\* with leading space after the colon, and a body that starts with a
\* well-formed field line.
C8_Witness ==
    /\ pc = "parsed"
    /\ WellFormed(StdoutBytes)
    /\ parsed.ok
    /\ Len(HeaderBlock(StdoutBytes).fields) = 2
    /\ Cardinality(DOMAIN parsed.headers) = 1
    /\ \E k \in DOMAIN parsed.headers : Ord("\"") \in
           { parsed.headers[k][i] : i \in 1..Len(parsed.headers[k]) }
    /\ HasLine(parsed.body)
    /\ IsFieldLine(FirstLine(parsed.body))

\* C9: parse_headers fails, returning no header map, for every buffer that
\* is not a well-formed header block: no generic-field first, a line before
\* the blank line that violates the grammar, or no blank line.
C9_MalformedFails ==
    (pc = "parsed" /\ ~WellFormed(StdoutBytes)) =>
        ~parsed.ok /\ parsed.headers = EmptyMap

\* C9 witness: the first line is a well-formed field, the second line is
\* neither a field nor blank, and the parse fails.
C9_Witness ==
    /\ pc = "parsed"
    /\ ~WellFormed(StdoutBytes)
    /\ HasLine(StdoutBytes)
    /\ IsFieldLine(FirstLine(StdoutBytes))
    /\ LET rest == Drop(StdoutBytes, Len(FirstLine(StdoutBytes)))
       IN /\ HasLine(rest)
          /\ LineContent(FirstLine(rest)) # <<>>
          /\ ~IsFieldLine(FirstLine(rest))
    /\ ~parsed.ok

\* The inputs of the derivation example.
ExampleInput ==
    /\ env = <<>>
    /\ cli.url = Some(Url(Https, "Domain", AppShow, Some(Id5)))
    /\ cli.script_name = Some(App)
    /\ cli.server_document_root = Some(Root)

Has(p, k, v) == k \in DOMAIN p /\ p[k] = v

ExampleCommon(p) ==
    /\ Has(p, "PATH_INFO", <<"/", "s", "h", "o", "w">>)
    /\ Has(p, "PATH_TRANSLATED", Root \o <<"/", "s", "h", "o", "w">>)
    /\ Has(p, "HTTP_HOST", ExampleCom)
    /\ Has(p, "QUERY_STRING", Id5)
    /\ Has(p, "HTTPS", <<"o", "n">>)

\* C4 as stated: the example yields REQUEST_URI=/show?id=5.
C4_Original ==
    (pc = "derived" /\ ExampleInput) =>
        /\ ExampleCommon(Unwrap(params))
        /\ Has(Unwrap(params), "REQUEST_URI",
               <<"/", "s", "h", "o", "w", "?">> \o Id5)

\* C4 amended: the example yields PATH_INFO=/show,
\* PATH_TRANSLATED=/srv/www/show, HTTP_HOST=example.com, QUERY_STRING=id=5,
\* HTTPS=on and REQUEST_URI=/app/show?id=5 (the full URL path, then the
\* query).
C4_ExampleDerivation ==
    (pc = "derived" /\ ExampleInput) =>
        /\ ExampleCommon(Unwrap(params))
        /\ Has(Unwrap(params), "REQUEST_URI", AppShow \o <<"?">> \o Id5)

C4_Witness == pc = "derived" /\ ExampleInput /\ IsSome(params)

HeaderAbort == error \in {"MalformedHeaders", "InvalidStatusValue", "UpstreamError"}

DumpConfigured == IsSome(cli.response_headers_dump_file)

\* needParseHeader = failOnStatus OR NOT includeHeaders OR dump configured
NeedParse ==
    \/ cli.response_status_fail_on_gte_400
    \/ ~cli.response_headers_include
    \/ DumpConfigured

\* The status check has been passed or has aborted.
StatusChecked ==
    /\ IsSome(stdout_data)
    /\ cli.response_status_fail_on_gte_400
    /\ parsed.ok
    /\ pc \notin {"start", "handle_stdout", "status"}

\* The Status header's leading digits as a number, where it has only digits.
RECURSIVE Number(_)
Number(digits) ==
    IF digits = <<>> THEN 0
    ELSE Number(Take(digits, Len(digits) - 1)) * 10 + (digits[Len(digits)] - 48)

\* C1: with fail-on-status set and headers that parse, handling fails with
\* UpstreamError and writes no body byte whenever the Status value is
\* >= 400 (400 included), and does not fail on status below 400 or without
\* a Status header.
C1_FailOnStatusGte400 ==
    StatusChecked =>
        LET hb == HeaderBlock(StdoutBytes)
            st == IF StatusKey \in { FoldCase(hb.fields[i][1]) : i \in 1..Len(hb.fields) }
                  THEN first_part(LastValue(hb.fields, StatusKey))
                  ELSE Bytes(<<"2", "0", "0">>)
        IN (st # <<>> /\ \A i \in 1..Len(st) : st[i] \in 48..57) =>
              IF Number(st) >= 400
              THEN error = "UpstreamError" /\ written.out = <<>>
              ELSE error # "UpstreamError"

\* C2: whenever the transport returned a diagnostic buffer, all of its bytes
\* have been written to the diagnostic destination when the run ends,
\* whatever happened to the primary stream (only a failure of the diagnostic
\* destination itself excepted).
C2_DiagnosticsAlwaysWritten ==
    (pc = "done" /\ IsSome(stderr_data) /\ error # "DiagIo") =>
        written.err = Unwrap(stderr_data)

\* C3: when handling of the primary response aborts with MalformedHeaders,
\* InvalidStatusValue or UpstreamError, no byte has been written to, and no
\* file created or truncated for, the primary output or the header dump.
C3_NoOutputOnHeaderAbort ==
    HeaderAbort =>
        /\ written.out = <<>>
        /\ written.dump = <<>>
        /\ \A i \in 1..Len(opened) : opened[i].dest \notin {"out", "dump"}

\* C3 witness: an UpstreamError abort with include-headers, a dump file and
\* an output file all configured.
C3_Witness ==
    /\ error = "UpstreamError"
    /\ pc = "done"
    /\ cli.response_headers_include
    /\ DumpConfigured
    /\ IsSome(cli.output_file_name)
    /\ IsSome(cli.output_directory)

\* The last non-empty segment of a path, <<>> if it has none.
LastNonEmptySegment(path) ==
    IF \A i \in 1..Len(path) : path[i] = "/" THEN <<>>
    ELSE LET j == CHOOSE j \in 1..Len(path) :
                      path[j] # "/" /\ \A k \in (j + 1)..Len(path) : path[k] = "/"
             i == CHOOSE i \in 1..j :
                      /\ \A k \in i..j : path[k] # "/"
                      /\ i = 1 \/ path[i - 1] = "/"
         IN SubSeq(path, i, j)

\* C5: the primary destination is the explicit output file if given; else,
\* in remote-name mode, the last non-empty segment of the URL path, and the
\* operation fails with EmptyRemoteName (never an empty file name) when
\* there is none; else the standard output stream.
C5_OutputSelection ==
    (pc \in {"open_out", "write_out"}) =>
        IF IsSome(cli.output_file_name) THEN out_name = cli.output_file_name
        ELSE IF cli.output_file_remote_name
        THEN /\ LastNonEmptySegment(Unwrap(cli.url).path) # <<>>
             /\ out_name = Some(LastNonEmptySegment(Unwrap(cli.url).path))
        ELSE out_name = None

\* C6: every file created/truncated is the file name resolved relative to
\* the output directory (DIR, then the file name) when one is configured,
\* and the file name unchanged otherwise.
C6_FilesUnderOutputDirectory ==
    \A i \in 1..Len(opened) :
        opened[i].path =
            IF IsSome(cli.output_directory)
            THEN join(Unwrap(cli.output_directory), opened[i].name)
            ELSE opened[i].name

\* Handling of the primary response has returned Ok.
StdoutHandled ==
    /\ IsSome(stdout_data)
    /\ pc \in {"stderr", "write_err", "done"}
    /\ error \in {"None", "DiagIo"}

\* C7: on successful handling of a primary buffer B: without needParseHeader
\* the primary destination received exactly B and the parser did not run;
\* otherwise it received B when include-headers is set and the body slice
\* when not, and a configured header dump received exactly the prefix of B
\* of length len(B) - len(body), so that dump followed by body is B.
C7_RoutedBytes ==
    StdoutHandled =>
        IF ~NeedParse
        THEN written.out = StdoutBytes /\ parsed = NotParsed
        ELSE LET body == HeaderBlock(StdoutBytes).body IN
             /\ WellFormed(StdoutBytes)
             /\ written.out = IF cli.response_headers_include
                              THEN StdoutBytes ELSE body
             /\ DumpConfigured =>
                   /\ Len(written.dump) = Len(StdoutBytes) - Len(body)
                   /\ written.dump \o body = StdoutBytes
             /\ ~DumpConfigured => written.dump = <<>>

\* C7 witness: a success that wrote a header dump and the body alone.
C7_Witness ==
    /\ StdoutHandled
    /\ DumpConfigured
    /\ ~cli.response_headers_include
    /\ written.dump # <<>>
    /\ written.out # <<>>
    /\ written.out # StdoutBytes

\* The header-dump step has completed.
DumpDone ==
    /\ IsSome(stdout_data)
    /\ DumpConfigured
    /\ pc \in {"resolve", "open_out", "write_out", "stderr", "write_err", "done"}
    /\ error \in {"None", "EmptyRemoteName", "OutputIo", "DiagIo"}

IsPrefix(a, b) == Len(a) <= Len(b) /\ a = Take(b, Len(a))

DumpBeforePrimary ==
    /\ written.dump = Take(StdoutBytes, Len(StdoutBytes) - Len(parsed.body))
    /\ written.dump # <<>>
    /\ \A i \in 1..Len(opened) : opened[i].dest = "out" =>
           \E j \in 1..(i - 1) : opened[j].dest = "dump"
    /\ pc \in {"resolve", "open_out"} => written.out = <<>>

\* C10 as stated: once parsing and the status check succeeded with a dump
\* configured, the dump is completely written before the primary
\* destination is resolved, and a later failure (EmptyRemoteName, or
\* failure to open or write the primary output) leaves the dump written
\* and no primary output byte written.
C10_Original ==
    DumpDone =>
        /\ DumpBeforePrimary
        /\ error \in {"EmptyRemoteName", "OutputIo"} => written.out = <<>>

\* C10 amended: as above, except that a failure while writing the primary
\* output may leave a proper prefix of the primary bytes written; a failure
\* to resolve or open the primary output leaves none.
C10_DumpBeforePrimary ==
    DumpDone =>
        /\ DumpBeforePrimary
        /\ error = "EmptyRemoteName" => written.out = <<>>
        /\ error = "OutputIo" =>
              /\ IsPrefix(written.out, out) /\ written.out # out
              /\ (\A i \in 1..Len(opened) : opened[i].dest # "out")
                    /\ IsSome(out_name) => written.out = <<>>

\* C10 witness: the primary output could not be opened after the dump was
\* written.
C10_Witness ==
    /\ DumpDone
    /\ error = "OutputIo"
    /\ IsSome(out_name)
    /\ \A i \in 1..Len(opened) : opened[i].dest # "out"
    /\ written.dump # <<>>
    /\ written.out = <<>>

====
